---- MODULE Spec2Model ----
(***************************************************************************)
(* A model of ego-upload (src/ego-upload.ts): the token-based script       *)
(* (v1.2.0, lines 309-685) with its `upload` and `confirm-upload`          *)
(* commands, and the upload command of the form-based script (v1.0.0,      *)
(* lines 1-307).  Text that the program serialises, stores and parses      *)
(* (the confirmations file, HTTP response bodies) is a sequence of code    *)
(* units, each written as a one-element string.                            *)
(***************************************************************************)
EXTENDS Integers, Sequences, FiniteSets, TLC

(***************************************************************************)
(* Bounds.                                                                 *)
(***************************************************************************)
\* Longest prompt title served by the schema in the round-trip specification.
MaxTitleLen == 2

(***************************************************************************)
(* Code units.                                                             *)
(***************************************************************************)
QUOTE == "\""
BACKSLASH == "\\"
LF == "\n"
\* The control character U+0001, which JSON writes as a \u escape.
U0001 == "U+0001"
\* The non-ASCII letter U+00E9, two bytes in UTF-8.
U00E9 == "U+00E9"
\* Any code unit decoded from a \u escape that the model does not name.
UOTHER == "U+FFFF"
\* The replacement character a UTF-8 decoder yields for a malformed sequence.
UFFFD == "U+FFFD"

WhiteSpace == {" ", LF, "\t", "\r"}
Digits == {"0", "1", "2", "3", "4", "5", "6", "7", "8", "9"}
HexDigits == Digits \cup {"a", "b", "c", "d", "e", "f", "A", "B", "C", "D", "E", "F"}
ControlChars == {LF, "\t", "\r", U0001}

\* F applied to the value of v, which is computed once.
With(v, F(_)) == CHOOSE out \in {F(x) : x \in {v}} : TRUE

(***************************************************************************)
(* JavaScript values as the program sees them after JSON.parse.  Every     *)
(* value has the same shape so that values of different types compare.     *)
(***************************************************************************)
JUndefined == [type |-> "undefined", str |-> <<>>, members |-> <<>>]
JNull == [type |-> "null", str |-> <<>>, members |-> <<>>]
JTrue == [type |-> "boolean", str |-> <<"t", "r", "u", "e">>, members |-> <<>>]
JFalse == [type |-> "boolean", str |-> <<"f", "a", "l", "s", "e">>, members |-> <<>>]
JNumber(digits) == [type |-> "number", str |-> digits, members |-> <<>>]
JString(chars) == [type |-> "string", str |-> chars, members |-> <<>>]
JArray(elements) == [type |-> "array", str |-> <<>>, members |-> elements]
JObject(members) == [type |-> "object", str |-> <<>>, members |-> members]
Member(k, v) == [key |-> k, value |-> v]

\* typeof x, where typeof null and typeof [] are both "object".
TypeOf(v) == IF v.type \in {"null", "array", "object"} THEN "object" ELSE v.type

IsArray(v) == v.type = "array"

\* a === b when b is a string: same type and same code units.
StrictEqualsString(a, b) == a.type = "string" /\ b.type = "string" /\ a.str = b.str

RECURSIVE LookupFrom(_, _, _)
LookupFrom(members, key, i) ==
  IF i = 0 THEN JUndefined
  ELSE IF members[i].key = key THEN members[i].value
  ELSE LookupFrom(members, key, i - 1)

\* obj[key] on a plain object: the last member of that name, or undefined.
GetProperty(obj, key) == LookupFrom(obj.members, key, Len(obj.members))

\* `${v}` in a template literal: String(v).  The elements of an array are
\* joined with commas, null and undefined among them as the empty string.
RECURSIVE JoinFrom(_, _)
JoinFrom(elements, i) ==
  IF i > Len(elements) THEN <<>>
  ELSE (IF i > 1 THEN <<",">> ELSE <<>>)
       \o (IF elements[i].type \in {"null", "undefined"} THEN <<>>
           ELSE IF elements[i].type = "array" THEN JoinFrom(elements[i].members, 1)
           ELSE IF elements[i].type = "object" THEN <<"[", "o", "b", "j", "e", "c", "t", " ", "O", "b", "j", "e", "c", "t", "]">>
           ELSE elements[i].str)
       \o JoinFrom(elements, i + 1)

TemplateString(v) ==
  IF v.type = "undefined" THEN <<"u", "n", "d", "e", "f", "i", "n", "e", "d">>
  ELSE IF v.type = "null" THEN <<"n", "u", "l", "l">>
  ELSE JoinFrom(<<v>>, 1)

(***************************************************************************)
(* The two confirmation fields and the spelling of their names.            *)
(***************************************************************************)
fields == <<"shell_license_compliant", "tos_compliant">>

FieldSet == {fields[i] : i \in 1..Len(fields)}

KeyChars(f) ==
  IF f = "shell_license_compliant"
  THEN <<"s", "h", "e", "l", "l", "_", "l", "i", "c", "e", "n", "s", "e", "_",
         "c", "o", "m", "p", "l", "i", "a", "n", "t">>
  ELSE <<"t", "o", "s", "_", "c", "o", "m", "p", "l", "i", "a", "n", "t">>

\* The concatenation of the sequences ss[lo], ..., ss[hi].
RECURSIVE Flatten(_, _, _)
Flatten(ss, lo, hi) ==
  IF lo > hi THEN <<>>
  ELSE IF lo = hi THEN ss[lo]
  ELSE Flatten(ss, lo, (lo + hi) \div 2) \o Flatten(ss, (lo + hi) \div 2 + 1, hi)

(***************************************************************************)
(* JSON.stringify(prompts, undefined, 2): QuoteJSONString and the          *)
(* two-space indented object layout.                                       *)
(***************************************************************************)
\* EscapeChar that leaves the backslash as it is.
EscapeCharQuoteOnly(c) ==
  IF c = QUOTE THEN <<BACKSLASH, QUOTE>>
  ELSE IF c = LF THEN <<BACKSLASH, "n">>
  ELSE IF c = "\t" THEN <<BACKSLASH, "t">>
  ELSE IF c = "\r" THEN <<BACKSLASH, "r">>
  ELSE IF c = U0001 THEN <<BACKSLASH, "u", "0", "0", "0", "1">>
  ELSE <<c>>

EscapeChar(c) ==
  IF c = QUOTE THEN <<BACKSLASH, QUOTE>>
  ELSE IF c = BACKSLASH THEN <<BACKSLASH, BACKSLASH>>
  ELSE IF c = LF THEN <<BACKSLASH, "n">>
  ELSE IF c = "\t" THEN <<BACKSLASH, "t">>
  ELSE IF c = "\r" THEN <<BACKSLASH, "r">>
  ELSE IF c = U0001 THEN <<BACKSLASH, "u", "0", "0", "0", "1">>
  ELSE <<c>>

QuoteBody(chars) ==
  With(chars, LAMBDA cs :
    Flatten([i \in 1..Len(cs) |-> EscapeChar(cs[i])], 1, Len(cs)))

QuoteJSONString(chars) == <<QUOTE>> \o QuoteBody(chars) \o <<QUOTE>>

\* StringifyPrompts with the ToS prompt written under both keys.
StringifyPromptsTosTwice(p) ==
  <<"{", LF, " ", " ">>
    \o QuoteJSONString(KeyChars(fields[1])) \o <<":", " ">>
    \o QuoteJSONString(p[fields[2]])
    \o <<",", LF, " ", " ">>
    \o QuoteJSONString(KeyChars(fields[2])) \o <<":", " ">>
    \o QuoteJSONString(p[fields[2]])
    \o <<LF, "}">>

\* JSON.stringify(prompts, undefined, 2)
StringifyPrompts(p) ==
  <<"{", LF, " ", " ">>
    \o QuoteJSONString(KeyChars(fields[1])) \o <<":", " ">>
    \o QuoteJSONString(p[fields[1]])
    \o <<",", LF, " ", " ">>
    \o QuoteJSONString(KeyChars(fields[2])) \o <<":", " ">>
    \o QuoteJSONString(p[fields[2]])
    \o <<LF, "}">>

(***************************************************************************)
(* JSON.parse: a recursive-descent parser of objects, arrays, strings,     *)
(* integers and the three literals.  A result is [ok, value, next]; next   *)
(* is the position after the value.                                        *)
(***************************************************************************)
ParseFail == [ok |-> FALSE, value |-> JUndefined, next |-> 0]
ParseOk(v, n) == [ok |-> TRUE, value |-> v, next |-> n]

RECURSIVE SkipWS(_, _)
SkipWS(t, i) ==
  IF i <= Len(t) /\ t[i] \in WhiteSpace THEN SkipWS(t, i + 1) ELSE i

At(t, i) == IF i >= 1 /\ i <= Len(t) THEN t[i] ELSE "EOF"

CodeUnitOfHex(h) ==
  IF h = <<"0", "0", "0", "1">> THEN U0001
  ELSE IF h \in {<<"0", "0", "2", "2">>} THEN QUOTE
  ELSE IF h \in {<<"0", "0", "5", "c">>, <<"0", "0", "5", "C">>} THEN BACKSLASH
  ELSE IF h \in {<<"0", "0", "0", "a">>, <<"0", "0", "0", "A">>} THEN LF
  ELSE IF h = <<"0", "0", "6", "1">> THEN "a"
  ELSE IF h \in {<<"0", "0", "e", "9">>, <<"0", "0", "E", "9">>} THEN U00E9
  ELSE UOTHER

\* The character an escape letter stands for, or "EOF" when there is none.
Unescape(e) ==
  IF e = QUOTE THEN QUOTE
  ELSE IF e = BACKSLASH THEN BACKSLASH
  ELSE IF e = "/" THEN "/"
  ELSE IF e = "n" THEN LF
  ELSE IF e = "t" THEN "\t"
  ELSE IF e = "r" THEN "\r"
  ELSE "EOF"

\* The characters of a string from position i up to its closing quote.
RECURSIVE ParseStringBody(_, _, _)
ParseStringBody(t, i0, acc0) ==
  With(<<i0, acc0, At(t, i0), At(t, i0 + 1)>>, LAMBDA a :
    LET i == a[1]
        acc == a[2]
        c == a[3]
        e == a[4]
    IN IF c = "EOF" \/ c \in ControlChars THEN ParseFail
       ELSE IF c = QUOTE THEN ParseOk(JString(acc), i + 1)
       ELSE IF c # BACKSLASH THEN ParseStringBody(t, i + 1, Append(acc, c))
       ELSE IF Unescape(e) # "EOF" THEN ParseStringBody(t, i + 2, Append(acc, Unescape(e)))
       ELSE IF e = "u" /\ i + 5 <= Len(t) /\ \A k \in 2..5 : t[i + k] \in HexDigits
       THEN ParseStringBody(t, i + 6,
              Append(acc, CodeUnitOfHex(<<t[i + 2], t[i + 3], t[i + 4], t[i + 5]>>)))
       ELSE ParseFail)

ParseString(t, i) ==
  IF At(t, i) = QUOTE THEN ParseStringBody(t, i + 1, <<>>) ELSE ParseFail

RECURSIVE SkipDigits(_, _)
SkipDigits(t, i) == IF At(t, i) \in Digits THEN SkipDigits(t, i + 1) ELSE i

\* An integer: an optional minus, then 0 or a digit string without leading 0.
ParseNumber(t, i) ==
  With(IF At(t, i) = "-" THEN i + 1 ELSE i, LAMBDA s :
    With(IF At(t, s) = "0" THEN s + 1 ELSE SkipDigits(t, s), LAMBDA e :
      IF e = s THEN ParseFail ELSE ParseOk(JNumber(SubSeq(t, i, e - 1)), e)))

ParseLiteral(t, i, word, v) ==
  IF i + Len(word) - 1 <= Len(t) /\ SubSeq(t, i, i + Len(word) - 1) = word
  THEN ParseOk(v, i + Len(word))
  ELSE ParseFail

RECURSIVE ParseValue(_, _)
RECURSIVE ParseElements(_, _, _)
RECURSIVE ParseMembers(_, _, _)

\* After an opening bracket or a comma: element, then a comma or the bracket.
ParseElements(t, i, acc) ==
  With(ParseValue(t, i), LAMBDA r :
    IF ~r.ok THEN ParseFail
    ELSE With(Append(acc, Member(<<>>, r.value)), LAMBDA acc2 :
      IF At(t, r.next) = "," THEN ParseElements(t, r.next + 1, acc2)
      ELSE IF At(t, r.next) = "]" THEN ParseOk(JArray(acc2), r.next + 1)
      ELSE ParseFail))

\* After an opening brace or a comma: "key" : value, then a comma or the brace.
ParseMembers(t, i, acc) ==
  With(ParseString(t, SkipWS(t, i)), LAMBDA k :
    IF ~k.ok THEN ParseFail
    ELSE With(SkipWS(t, k.next), LAMBDA c :
      IF At(t, c) # ":" THEN ParseFail
      ELSE With(ParseValue(t, c + 1), LAMBDA r :
        IF ~r.ok THEN ParseFail
        ELSE With(Append(acc, Member(k.value.str, r.value)), LAMBDA acc2 :
          IF At(t, r.next) = "," THEN ParseMembers(t, r.next + 1, acc2)
          ELSE IF At(t, r.next) = "}" THEN ParseOk(JObject(acc2), r.next + 1)
          ELSE ParseFail))))

\* The value that starts at position i, which is not white space.
ParseValueAt(t, i) ==
  With(At(t, i), LAMBDA c :
    IF c = "{" THEN
      With(SkipWS(t, i + 1), LAMBDA j :
        IF At(t, j) = "}" THEN ParseOk(JObject(<<>>), j + 1)
        ELSE ParseMembers(t, i + 1, <<>>))
    ELSE IF c = "[" THEN
      With(SkipWS(t, i + 1), LAMBDA j :
        IF At(t, j) = "]" THEN ParseOk(JArray(<<>>), j + 1)
        ELSE ParseElements(t, i + 1, <<>>))
    ELSE IF c = QUOTE THEN ParseString(t, i)
    ELSE IF c = "t" THEN ParseLiteral(t, i, JTrue.str, JTrue)
    ELSE IF c = "f" THEN ParseLiteral(t, i, JFalse.str, JFalse)
    ELSE IF c = "n" THEN ParseLiteral(t, i, <<"n", "u", "l", "l">>, JNull)
    ELSE IF c = "-" \/ c \in Digits THEN ParseNumber(t, i)
    ELSE ParseFail)

\* A value with the white space around it; next is after the trailing space.
ParseValue(t, i0) ==
  With(SkipWS(t, i0), LAMBDA i :
    With(ParseValueAt(t, i), LAMBDA r :
      IF r.ok THEN ParseOk(r.value, SkipWS(t, r.next)) ELSE ParseFail))

\* JSON.parse(text): the value, or a SyntaxError when ok is FALSE.
JSONParse(text) ==
  With(text, LAMBDA t :
    With(ParseValue(t, 1), LAMBDA r :
      IF r.ok /\ r.next = Len(t) + 1 THEN r ELSE ParseFail))

(***************************************************************************)
(* TextEncoder (inside Deno.writeTextFile) and TextDecoder.decode: UTF-8.  *)
(* Bytes below 0x80 are written as the character they encode.              *)
(***************************************************************************)
EncodeChar(c) ==
  IF c = U00E9 THEN <<"0xC3", "0xA9">>
  ELSE IF c = UOTHER THEN <<"0xEF", "0xBF", "0xBF">>
  ELSE IF c = UFFFD THEN <<"0xEF", "0xBF", "0xBD">>
  ELSE <<c>>

TextEncode(chars) ==
  With(chars, LAMBDA cs :
    Flatten([i \in 1..Len(cs) |-> EncodeChar(cs[i])], 1, Len(cs)))

LeadBytes == {"0xC3", "0xEF"}
ContinuationBytes == {"0xA9", "0xBF", "0xBD"}

\* What the decoder emits for the byte at position i: a lead byte emits the
\* character of its sequence, or U+FFFD when the sequence is cut short; a
\* continuation byte emits nothing when a lead byte before it took it, and
\* U+FFFD when it stands alone.
DecodeAt(bytes, i) ==
  LET b == bytes[i]
      b1 == IF i + 1 <= Len(bytes) THEN bytes[i + 1] ELSE "EOF"
      b2 == IF i + 2 <= Len(bytes) THEN bytes[i + 2] ELSE "EOF"
      p1 == IF i - 1 >= 1 THEN bytes[i - 1] ELSE "EOF"
      p2 == IF i - 2 >= 1 THEN bytes[i - 2] ELSE "EOF"
  IN IF b = "0xC3" THEN
       IF b1 = "0xA9" THEN <<U00E9>>
       ELSE IF b1 \in ContinuationBytes THEN <<UOTHER>>
       ELSE <<UFFFD>>
     ELSE IF b = "0xEF" THEN
       IF b1 = "0xBF" /\ b2 = "0xBD" THEN <<UFFFD>>
       ELSE IF b1 \in ContinuationBytes /\ b2 \in ContinuationBytes THEN <<UOTHER>>
       ELSE <<UFFFD>>
     ELSE IF b \in ContinuationBytes THEN
       IF p1 \in LeadBytes \/ (p2 = "0xEF" /\ p1 \in ContinuationBytes)
       THEN <<>>
       ELSE <<UFFFD>>
     ELSE <<b>>

TextDecode(bytes) ==
  With(bytes, LAMBDA bs :
    Flatten([i \in 1..Len(bs) |-> DecodeAt(bs, i)], 1, Len(bs)))

(***************************************************************************)
(* Errors, log events and HTTP responses.                                  *)
(***************************************************************************)
Err(name, text, status, detail, errors) ==
  [name |-> name, text |-> text, status |-> status, detail |-> detail, errors |-> errors]

NoError == Err("none", "", 0, JUndefined, <<>>)
SyntaxError == Err("SyntaxError", "Unexpected token in JSON", 0, JUndefined, <<>>)
TypeError(text) == Err("TypeError", text, 0, JUndefined, <<>>)
PlainError(text, status) == Err("Error", text, status, JUndefined, <<>>)
InvalidUploadError(errors) == Err("InvalidUploadError", "", 0, JUndefined, errors)

\* One observable step of a run: a request sent, a prompt shown, a line
\* printed, a file written.
Ev(kind, name, arg) == [kind |-> kind, name |-> name, arg |-> arg]

\* A response arrived: its name and whether response.ok holds, and then the
\* JSON value its body stands for (undefined when it is not JSON).
Answered(name, resp) ==
  IF resp.transport
  THEN <<Ev("response", name, IF resp.status >= 200 /\ resp.status <= 299 THEN JTrue ELSE JFalse),
         Ev("body", name, JSONParse(resp.body).value)>>
  ELSE <<>>

Uncaught(err) == Ev("stderr", "error: Uncaught (in promise)", JString(<<err.name>>))

\* The result of fetch: a transport failure, or a status and a body.
Response(status, body) == [transport |-> TRUE, status |-> status, body |-> body]
TransportFailure == [transport |-> FALSE, status |-> 0, body |-> <<>>]

\* response.ok
IsOk(resp) == resp.status >= 200 /\ resp.status <= 299

\* value.key as JavaScript evaluates it: a TypeError on null and undefined.
Prop(v, key) ==
  IF v.type \in {"null", "undefined"} THEN [ok |-> FALSE, value |-> JUndefined]
  ELSE IF v.type = "object" THEN [ok |-> TRUE, value |-> GetProperty(v, key)]
  ELSE [ok |-> TRUE, value |-> JUndefined]

(***************************************************************************)
(* What the server, the file system and the user may supply.               *)
(***************************************************************************)
Quoted(chars) == <<QUOTE>> \o chars \o <<QUOTE>>

kToken == <<"t", "o", "k", "e", "n">>
kDetail == <<"d", "e", "t", "a", "i", "l">>
kExtension == <<"e", "x", "t", "e", "n", "s", "i", "o", "n">>
kVersion == <<"v", "e", "r", "s", "i", "o", "n">>
kId == <<"i", "d">>
kUuid == <<"u", "u", "i", "d">>

NotJSON == <<"<", "h", "t", "m", "l", ">">>
EmptyObjectBody == <<"{", "}">>
NullBody == <<"n", "u", "l", "l">>
DetailBody(d) == <<"{">> \o Quoted(kDetail) \o <<":">> \o Quoted(d) \o <<"}">>
TokenBody(t) ==
  <<"{">> \o Quoted(kToken) \o <<":", "{">> \o Quoted(kToken) \o <<":">>
    \o Quoted(t) \o <<"}", "}">>
UploadedBody(u, v) ==
  <<"{">> \o Quoted(kExtension) \o <<":">> \o Quoted(u) \o <<",">>
    \o Quoted(kVersion) \o <<":">> \o v \o <<"}">>
MetadataBody(i, u) ==
  <<"{">> \o Quoted(kId) \o <<":">> \o i \o <<",">>
    \o Quoted(kUuid) \o <<":">> \o Quoted(u) \o <<"}">>

LoginResponses ==
  { TransportFailure,
    Response(200, TokenBody(<<"s">>)),
    Response(200, TokenBody(<<"t">>)),
    Response(200, EmptyObjectBody),
    Response(200, NotJSON),
    Response(400, DetailBody(<<"b", "a", "d">>)),
    Response(400, EmptyObjectBody),
    Response(400, NullBody),
    Response(500, NotJSON) }

UploadResponses ==
  { TransportFailure,
    Response(200, UploadedBody(<<"u">>, <<"3">>)),
    Response(200, NotJSON),
    Response(400, DetailBody(<<"b", "a", "d">>)),
    Response(500, NotJSON) }

QueryResponses ==
  { TransportFailure,
    Response(200, MetadataBody(<<"7">>, <<"u">>)),
    Response(200, MetadataBody(<<"8">>, <<"u">>)),
    Response(200, NotJSON),
    Response(404, DetailBody(<<"b", "a", "d">>)) }

LogoutResponses ==
  { TransportFailure,
    Response(200, EmptyObjectBody),
    Response(200, NotJSON),
    Response(401, DetailBody(<<"b", "a", "d">>)),
    Response(500, NotJSON) }

\* The parsed schema document: whether components.schemas.ExtensionUpload is
\* there, and for each field whether it is among its properties and what
\* its title is.
SchemaProperty(title) == [present |-> TRUE, title |-> title]
AbsentProperty == [present |-> FALSE, title |-> JUndefined]
SchemaDoc(license, tos) ==
  [component |-> TRUE,
   properties |-> [shell_license_compliant |-> license, tos_compliant |-> tos]]
NoComponentDoc ==
  [component |-> FALSE,
   properties |-> [shell_license_compliant |-> AbsentProperty, tos_compliant |-> AbsentProperty]]

LicenseTitle == <<"L">>
TosTitle == <<"T">>
TosTitle2 == <<"T", "2">>

SchemaDocs ==
  { SchemaDoc(SchemaProperty(JString(LicenseTitle)), SchemaProperty(JString(TosTitle))),
    SchemaDoc(SchemaProperty(JString(LicenseTitle)), SchemaProperty(JString(TosTitle2))),
    SchemaDoc(SchemaProperty(JString(LicenseTitle)), SchemaProperty(JUndefined)),
    SchemaDoc(SchemaProperty(JNumber(<<"1">>)), SchemaProperty(JString(TosTitle))),
    SchemaDoc(SchemaProperty(JString(LicenseTitle)), AbsentProperty),
    NoComponentDoc }

\* The file named by --confirmations and by confirm-upload's target-file.
FileWith(text) == [exists |-> TRUE, bytes |-> TextEncode(text)]
NoFile == [exists |-> FALSE, bytes |-> <<>>]

RecordText(members) ==
  <<"{">> \o members \o <<"}", LF>>
LicenseMember(v) == Quoted(KeyChars("shell_license_compliant")) \o <<":">> \o v
TosMember(v) == Quoted(KeyChars("tos_compliant")) \o <<":">> \o v

InitialFiles ==
  { NoFile,
    FileWith(RecordText(LicenseMember(Quoted(LicenseTitle)) \o <<",">> \o TosMember(Quoted(TosTitle)))),
    FileWith(RecordText(TosMember(Quoted(TosTitle)) \o <<",">> \o LicenseMember(Quoted(LicenseTitle))
                          \o <<",">> \o Quoted(<<"x">>) \o <<":", "1">>)),
    FileWith(RecordText(LicenseMember(Quoted(LicenseTitle)))),
    FileWith(RecordText(LicenseMember(<<"1">>) \o <<",">> \o TosMember(Quoted(TosTitle)))),
    FileWith(EmptyObjectBody),
    FileWith(NullBody),
    FileWith(<<"[", "]">>),
    FileWith(<<"[">> \o Quoted(LicenseTitle) \o <<",">> \o Quoted(TosTitle) \o <<"]">>),
    FileWith(Quoted(LicenseTitle)),
    FileWith(<<"1", "2">>),
    FileWith(<<"t", "r", "u", "e">>),
    FileWith(<<"{">>) }

\* Validation messages the upload form may show after a rejected upload.
HelpTexts ==
  { <<>>,
    <<JString(<<"m", "1">>)>>,
    <<JString(<<"m", "1">>), JString(<<"m", "2">>)>> }

(***************************************************************************)
(* The functions of the token-based script, as functions of what the       *)
(* server or the file system answered.                                     *)
(***************************************************************************)
\* The value of `token` before login has returned.
NoToken == [type |-> "none", str |-> <<>>, members |-> <<>>]

Returned(v) == [ok |-> TRUE, value |-> v, error |-> NoError]
Thrown(e) == [ok |-> FALSE, value |-> JUndefined, error |-> e]

\* authorizationHeader(token): the value of the Authorization header.
authorizationHeader(t) ==
  JString(<<"T", "o", "k", "e", "n", " ">> \o TemplateString(t))

\* `https://extensions.gnome.org/extension/${id}/`
extensionUrl(id) ==
  JString(<<"h", "t", "t", "p", "s", ":", "/", "/",
            "e", "x", "t", "e", "n", "s", "i", "o", "n", "s", ".",
            "g", "n", "o", "m", "e", ".", "o", "r", "g", "/",
            "e", "x", "t", "e", "n", "s", "i", "o", "n", "/">>
            \o TemplateString(id) \o <<"/">>)

\* login returning data.token, the object, in place of data.token.token.
loginOuterToken(resp) ==
  IF ~resp.transport THEN Thrown(TypeError("error sending request"))
  ELSE LET data == JSONParse(resp.body) IN
    IF ~data.ok THEN Thrown(SyntaxError)
    ELSE IF ~IsOk(resp) THEN
      LET detail == Prop(data.value, kDetail) IN
      IF ~detail.ok THEN Thrown(TypeError("Cannot read properties of null"))
      ELSE Thrown(Err("Error", "Login failed with status", resp.status, detail.value, <<>>))
    ELSE
      LET outer == Prop(data.value, kToken)
      IN IF ~outer.ok THEN Thrown(TypeError("Cannot read properties of undefined"))
         ELSE Returned(outer.value)

\* login: response.json() is awaited before response.ok is looked at.
login(resp) ==
  IF ~resp.transport THEN Thrown(TypeError("error sending request"))
  ELSE LET data == JSONParse(resp.body) IN
    IF ~data.ok THEN Thrown(SyntaxError)
    ELSE IF ~IsOk(resp) THEN
      LET detail == Prop(data.value, kDetail) IN
      IF ~detail.ok THEN Thrown(TypeError("Cannot read properties of null"))
      ELSE Thrown(Err("Error", "Login failed with status", resp.status, detail.value, <<>>))
    ELSE
      LET outer == Prop(data.value, kToken)
          inner == Prop(outer.value, kToken)
      IN IF ~outer.ok \/ ~inner.ok THEN Thrown(TypeError("Cannot read properties of undefined"))
         ELSE Returned(inner.value)

\* The text entries of the FormData that upload sends; the zip is its third
\* entry.
UploadFormData ==
  JObject(<<Member(KeyChars("shell_license_compliant"), JString(<<"t", "r", "u", "e">>)),
            Member(KeyChars("tos_compliant"), JString(<<"t", "r", "u", "e">>))>>)

\* upload, after Deno.readFile(path) has succeeded and the request was sent.
upload(resp) ==
  IF ~resp.transport THEN Thrown(TypeError("error sending request"))
  ELSE IF IsOk(resp) THEN
    LET data == JSONParse(resp.body) IN
    IF ~data.ok THEN Thrown(SyntaxError) ELSE Returned(data.value)
  ELSE Thrown(PlainError("Upload failed with status", resp.status))

\* queryExtension; its failure message also reads "Upload failed".
queryExtension(resp) ==
  IF ~resp.transport THEN Thrown(TypeError("error sending request"))
  ELSE IF IsOk(resp) THEN
    LET data == JSONParse(resp.body) IN
    IF ~data.ok THEN Thrown(SyntaxError) ELSE Returned(data.value)
  ELSE Thrown(PlainError("Upload failed with status", resp.status))

\* const { a, b } = value: a TypeError when value is null or undefined.
Destructure(r, key) ==
  IF ~r.ok THEN r
  ELSE LET p == Prop(r.value, key) IN
       IF p.ok THEN Returned(p.value)
       ELSE Thrown(TypeError("Cannot destructure property"))

\* What the schema request brought: nothing when it failed in transport, a
\* body that is not JSON, or the document held in `schema`, for which the
\* empty object stands in the trace.
SchemaAnswered(how) ==
  IF how = "transport" THEN <<>>
  ELSE <<Ev("response", "schema", JTrue),
         Ev("body", "schema", IF how = "ok" THEN JObject(<<>>) ELSE JUndefined)>>

\* getPrompt(field) inside fetchConfirmationPrompts.
getPrompt(doc, f) ==
  IF ~doc.component \/ ~doc.properties[f].present
  THEN Thrown(TypeError("Cannot read properties of undefined"))
  ELSE IF TypeOf(doc.properties[f].title) # "string"
  THEN Thrown(Err("Error", "Failed to find confirmation prompt for field", 0,
                  JString(KeyChars(f)), <<>>))
  ELSE Returned(doc.properties[f].title)

NoPrompts == [shell_license_compliant |-> <<>>, tos_compliant |-> <<>>]

\* fetchConfirmationPrompts, given how the schema request went; the result
\* carries the prompts in `prompts`.
fetchConfirmationPrompts(how, doc) ==
  LET license == getPrompt(doc, "shell_license_compliant")
      tos == getPrompt(doc, "tos_compliant")
  IN IF how = "transport" THEN [ok |-> FALSE, error |-> TypeError("error sending request"), prompts |-> NoPrompts]
     ELSE IF how = "notjson" THEN [ok |-> FALSE, error |-> SyntaxError, prompts |-> NoPrompts]
     ELSE IF ~license.ok THEN [ok |-> FALSE, error |-> license.error, prompts |-> NoPrompts]
     ELSE IF ~tos.ok THEN [ok |-> FALSE, error |-> tos.error, prompts |-> NoPrompts]
     ELSE [ok |-> TRUE, error |-> NoError,
           prompts |-> [shell_license_compliant |-> license.value.str,
                        tos_compliant |-> tos.value.str]]

\* ConfirmStep without the early return: every field is asked and the last
\* answer is the result.
ConfirmStepAskAll(idx, answer) ==
  IF idx < Len(fields) THEN [done |-> FALSE, result |-> FALSE, next |-> idx + 1]
  ELSE [done |-> TRUE, result |-> answer, next |-> idx]

\* One iteration of the loop of promptForConfirmation over `fields`.
ConfirmStep(idx, answer) ==
  IF ~answer THEN [done |-> TRUE, result |-> FALSE, next |-> idx]
  ELSE IF idx < Len(fields) THEN [done |-> FALSE, result |-> FALSE, next |-> idx + 1]
  ELSE [done |-> TRUE, result |-> TRUE, next |-> idx]

\* loadConfirmations, given the answer to the permission request.
loadConfirmations(granted, f) ==
  IF ~granted
  THEN [ok |-> FALSE, error |-> PlainError("Permission to read confirmations denied", 0),
        value |-> JUndefined, warned |-> FALSE]
  ELSE IF ~f.exists
  THEN [ok |-> FALSE, error |-> Err("NotFound", "No such file or directory", 0, JUndefined, <<>>),
        value |-> JUndefined, warned |-> FALSE]
  ELSE LET contents == JSONParse(TextDecode(f.bytes)) IN
    IF ~contents.ok
    THEN [ok |-> FALSE, error |-> SyntaxError, value |-> JUndefined, warned |-> FALSE]
    ELSE IF TypeOf(contents.value) = "object" /\ ~IsArray(contents.value)
    THEN [ok |-> TRUE, error |-> NoError, value |-> contents.value, warned |-> FALSE]
    ELSE [ok |-> TRUE, error |-> NoError, value |-> JObject(<<>>), warned |-> TRUE]

\* EveryFieldConfirmed with `some` in place of `every`.
SomeFieldConfirmed(confirmedPrompts, p) ==
  \E i \in 1..Len(fields) :
    StrictEqualsString(GetProperty(confirmedPrompts, KeyChars(fields[i])),
                       JString(p[fields[i]]))

\* fields.every((field) => confirmedPrompts[field] === prompts[field])
EveryFieldConfirmed(confirmedPrompts, p) ==
  \A i \in 1..Len(fields) :
    StrictEqualsString(GetProperty(confirmedPrompts, KeyChars(fields[i])),
                       JString(p[fields[i]]))

\* MustAbort with the result of the verification ignored.
MustAbortNever(result) == FALSE

\* if (!await verifyConfirmedPrompts(...)) { ...; Deno.exit(1) }
MustAbort(result) == ~result

\* CatchHandler without the rethrow: every error is dropped.
CatchHandlerSwallowAll(err) ==
  [pending |-> NoError, out |-> <<>>]

\* The catch clause around the upload: validation messages are printed and
\* the error is dropped, any other error is thrown again.
CatchHandler(err) ==
  IF err.name = "InvalidUploadError"
  THEN [pending |-> NoError,
        out |-> <<Ev("stderr", "Upload failed; reasons:", JUndefined)>>
                  \o [i \in 1..Len(err.errors) |-> Ev("stderr", "  - ", err.errors[i])]]
  ELSE [pending |-> err, out |-> <<>>]

\* InTry with the try block closed after upload: the lookup is outside it.
InTryUploadOnly(v, p) ==
  IF v = "token" THEN p \in {"upload"}
  ELSE p \in {"formLogin", "formUploadForm", "formConfirm", "formUploadPost"}

\* InTry with login moved inside the try block, as in the form-based script.
InTryWithLogin(v, p) ==
  IF v = "token" THEN p \in {"login", "upload", "queryExtension"}
  ELSE p \in {"formLogin", "formUploadForm", "formConfirm", "formUploadPost"}

\* The positions of main that lie inside its try block.
InTry(v, p) ==
  IF v = "token" THEN p \in {"upload", "queryExtension"}
  ELSE p \in {"formLogin", "formUploadForm", "formConfirm", "formUploadPost"}

\* Where promptForMissingAuth first waits, or what follows it.
AuthEntry(v, o) ==
  IF ~o.username THEN "promptUsername"
  ELSE IF ~o.password THEN "promptPassword"
  ELSE IF v = "token" THEN "login" ELSE "formLogin"

(***************************************************************************)
(* State.                                                                  *)
(***************************************************************************)
VARIABLES
  variant,              \* "token" (v1.2.0) or "form" (v1.0.0): the script run
  command,              \* "upload" or "confirm-upload"
  options,              \* which of --confirmations, username, password are given
  run,                  \* how many runs have been started
  pc,                   \* where the run is waiting
  file,                 \* the confirmations file on disk
  schema,               \* the schema document the server serves
  preconfirmedPrompts,  \* main's preconfirmedPrompts
  prompts,              \* the fetched ConfirmationPrompts
  fieldIdx,             \* the loop position in `fields` while prompting
  verified,             \* what verifyConfirmedPrompts returned: "none", "true", "false"
  token,                \* main's token
  uploaded,             \* what upload returned
  formFields,           \* the confirmation inputs found in the upload form
  pending,              \* the error that will leave main, if any
  trace,                \* what the run has done so far
  exitCode              \* the exit status, once pc = "exited"

vars ==
  <<variant, command, options, run, pc, file, schema, preconfirmedPrompts,
    prompts, fieldIdx, verified, token, uploaded, formFields, pending, trace,
    exitCode>>

\* How many runs a behaviour of the round-trip specification holds.
MaxRuns == 2

Options == [confirmations : BOOLEAN, username : BOOLEAN, password : BOOLEAN]

NoOptions == [confirmations |-> FALSE, username |-> FALSE, password |-> FALSE]

\* The invocations: the script, the command, the options given, and the
\* file and schema the run will find.  The form-based script and
\* confirm-upload read neither --confirmations nor the file.
Scenario(v, c, o, f, d) ==
  [variant |-> v, command |-> c, options |-> o, file |-> f, schema |-> d]

DefaultSchema ==
  SchemaDoc(SchemaProperty(JString(LicenseTitle)), SchemaProperty(JString(TosTitle)))

Scenarios ==
  {Scenario("token", "upload", o, f, d) :
     o \in {p \in Options : p.confirmations}, f \in InitialFiles, d \in SchemaDocs}
  \cup {Scenario("token", "upload", o, NoFile, d) :
     o \in {p \in Options : ~p.confirmations}, d \in SchemaDocs}
  \cup {Scenario("token", "confirm-upload", NoOptions, f, d) :
     f \in {NoFile, FileWith(NullBody)}, d \in SchemaDocs}
  \cup {Scenario("form", "upload", o, NoFile, DefaultSchema) :
     o \in {p \in Options : ~p.confirmations}}

\* Where a command starts.
FirstPc(c) == IF c = "upload" THEN "checkZipFile" ELSE "fetchConfirmationPrompts"

InitWith(sc) ==
  /\ variant = sc.variant
  /\ command = sc.command
  /\ options = sc.options
  /\ run = 1
  /\ pc = FirstPc(sc.command)
  /\ file = sc.file
  /\ schema = sc.schema
  /\ preconfirmedPrompts = JNull
  /\ prompts = NoPrompts
  /\ fieldIdx = 1
  /\ verified = "none"
  /\ token = NoToken
  /\ uploaded = JUndefined
  /\ formFields = <<>>
  /\ pending = NoError
  /\ trace = <<>>
  /\ exitCode = 0

Init == \E sc \in Scenarios : InitWith(sc)

(***************************************************************************)
(* Control transfer.                                                       *)
(***************************************************************************)
Goto(p, evs) ==
  /\ pc' = p
  /\ trace' = trace \o evs
  /\ UNCHANGED <<pending, exitCode>>

\* Deno.exit(code), or main returning normally (code 0).
Exit(code, evs) ==
  /\ pc' = "exited"
  /\ exitCode' = code
  /\ trace' = trace \o evs
  /\ UNCHANGED pending

\* An error leaves main: Deno reports it and exits with status 1.
ExitUncaught(err, evs) ==
  /\ pc' = "exited"
  /\ exitCode' = 1
  /\ pending' = err
  /\ trace' = trace \o evs \o <<Uncaught(err)>>

\* An error thrown where the run is waiting: inside the try block the catch
\* clause runs and then the finally clause calls logout.
Throw(err, evs) ==
  IF InTry(variant, pc)
  THEN /\ pc' = IF variant = "token" THEN "logout" ELSE "formLogout"
       /\ pending' = CatchHandler(err).pending
       /\ trace' = trace \o evs \o CatchHandler(err).out
       /\ UNCHANGED exitCode
  ELSE ExitUncaught(err, evs)

\* What main does with the result of verifyConfirmedPrompts (upload), and
\* confirm-upload with the result of promptForConfirmation.
Verified(result, evs) ==
  /\ verified' = IF result THEN "true" ELSE "false"
  /\ IF command = "upload"
     THEN IF MustAbort(result)
          THEN Exit(1, evs \o <<Ev("stderr",
                 "You must confirm the license terms and terms of service to upload an extension!",
                 JUndefined)>>)
          ELSE Goto(AuthEntry(variant, options), evs)
     ELSE IF result
          THEN Goto("writeTextFile", evs)
          ELSE Exit(1, evs \o <<Ev("stderr",
                 "You must accept the license terms and the terms of service", JUndefined)>>)

(***************************************************************************)
(* The runs.                                                               *)
(***************************************************************************)
\* The script is invoked again after a run has ended; the file system and
\* the server keep their state.
NextRun(v, c, o) ==
  /\ pc = "exited"
  /\ run < MaxRuns
  /\ run' = run + 1
  /\ variant' = v
  /\ command' = c
  /\ options' = o
  /\ pc' = FirstPc(c)
  /\ preconfirmedPrompts' = JNull
  /\ prompts' = NoPrompts
  /\ fieldIdx' = 1
  /\ verified' = "none"
  /\ token' = NoToken
  /\ uploaded' = JUndefined
  /\ formFields' = <<>>
  /\ pending' = NoError
  /\ trace' = <<>>
  /\ exitCode' = 0
  /\ UNCHANGED <<file, schema>>

\* upload action: the extension check and the read permission for the zip.
CheckZipFile ==
  /\ pc = "checkZipFile"
  /\ \E isZip \in BOOLEAN, granted \in BOOLEAN :
       IF ~isZip
       THEN ExitUncaught(PlainError("does not appear to be a zip file", 0), <<>>)
       ELSE IF ~granted
       THEN ExitUncaught(PlainError("Read permission denied", 0),
                         <<Ev("permission", "read zip", JUndefined)>>)
       ELSE Goto(IF variant = "form" THEN AuthEntry(variant, options)
                 ELSE IF options.confirmations THEN "loadConfirmations"
                 ELSE "verifyConfirmedPrompts",
                 <<Ev("permission", "read zip", JUndefined)>>)
  /\ UNCHANGED <<variant, command, options, run, file, schema, preconfirmedPrompts,
                 prompts, fieldIdx, verified, token, uploaded, formFields>>

\* options.confirmations ? await loadConfirmations(options.confirmations) : null
LoadConfirmations ==
  /\ pc = "loadConfirmations"
  /\ \E granted \in BOOLEAN :
       LET r == loadConfirmations(granted, file)
           asked == <<Ev("permission", "read confirmations", JUndefined)>>
       IN IF ~r.ok
          THEN /\ ExitUncaught(r.error, asked)
               /\ UNCHANGED preconfirmedPrompts
          ELSE /\ preconfirmedPrompts' = r.value
               /\ Goto("verifyConfirmedPrompts",
                       asked \o IF r.warned
                                THEN <<Ev("warn", "Ignoring unexpected confirmations:", JUndefined)>>
                                ELSE <<>>)
  /\ UNCHANGED <<variant, command, options, run, file, schema,
                 prompts, fieldIdx, verified, token, uploaded, formFields>>

\* verifyConfirmedPrompts up to its first prompt or its return.
VerifyConfirmedPrompts ==
  /\ pc = "verifyConfirmedPrompts"
  /\ \E how \in {"ok", "transport", "notjson"} :
       LET r == fetchConfirmationPrompts(how, schema)
           req == <<Ev("request", "schema", JUndefined)>> \o SchemaAnswered(how)
       IN IF ~r.ok
          THEN /\ ExitUncaught(r.error, req)
               /\ UNCHANGED <<prompts, verified>>
          ELSE IF preconfirmedPrompts = JNull
          THEN /\ prompts' = r.prompts
               /\ Goto("promptForConfirmation", req)
               /\ UNCHANGED verified
          ELSE /\ prompts' = r.prompts
               /\ Verified(EveryFieldConfirmed(preconfirmedPrompts, r.prompts), req)
  /\ fieldIdx' = 1
  /\ UNCHANGED <<variant, command, options, run, file, schema, preconfirmedPrompts,
                 token, uploaded, formFields>>

\* confirm-upload: const prompts = await fetchConfirmationPrompts()
FetchConfirmationPrompts ==
  /\ pc = "fetchConfirmationPrompts"
  /\ \E how \in {"ok", "transport", "notjson"} :
       LET r == fetchConfirmationPrompts(how, schema)
           req == <<Ev("request", "schema", JUndefined)>> \o SchemaAnswered(how)
       IN IF ~r.ok
          THEN /\ ExitUncaught(r.error, req)
               /\ UNCHANGED prompts
          ELSE /\ prompts' = r.prompts
               /\ Goto("promptForConfirmation", req)
  /\ fieldIdx' = 1
  /\ UNCHANGED <<variant, command, options, run, file, schema, preconfirmedPrompts,
                 verified, token, uploaded, formFields>>

\* promptForConfirmation: one Confirm.prompt and what follows its answer.
PromptForConfirmation ==
  /\ pc = "promptForConfirmation"
  /\ \E answer \in BOOLEAN :
       LET s == ConfirmStep(fieldIdx, answer)
           asked == <<Ev("confirm", fields[fieldIdx], IF answer THEN JTrue ELSE JFalse)>>
       IN IF s.done
          THEN /\ Verified(s.result, asked)
               /\ UNCHANGED fieldIdx
          ELSE /\ fieldIdx' = s.next
               /\ Goto("promptForConfirmation", asked)
               /\ UNCHANGED verified
  /\ UNCHANGED <<variant, command, options, run, file, schema, preconfirmedPrompts,
                 prompts, token, uploaded, formFields>>

\* confirm-upload: Deno.writeTextFile(targetFile, JSON.stringify(prompts, undefined, 2) + "\n"),
\* which is not awaited: a failed write is an unhandled rejection.
WriteTextFile ==
  /\ pc = "writeTextFile"
  /\ \E written \in BOOLEAN :
       IF written
       THEN /\ file' = FileWith(StringifyPrompts(prompts) \o <<LF>>)
            /\ Exit(0, <<Ev("write", "target-file", JUndefined)>>)
       ELSE /\ ExitUncaught(Err("PermissionDenied", "write", 0, JUndefined, <<>>), <<>>)
            /\ UNCHANGED file
  /\ UNCHANGED <<variant, command, options, run, schema, preconfirmedPrompts,
                 prompts, fieldIdx, verified, token, uploaded, formFields>>

\* promptForMissingAuth: Input.prompt("Your e.g.o username")
PromptUsername ==
  /\ pc = "promptUsername"
  /\ Goto(IF ~options.password THEN "promptPassword"
          ELSE IF variant = "token" THEN "login" ELSE "formLogin",
          <<Ev("prompt", "username", JUndefined)>>)
  /\ UNCHANGED <<variant, command, options, run, file, schema, preconfirmedPrompts,
                 prompts, fieldIdx, verified, token, uploaded, formFields>>

\* promptForMissingAuth: Secret.prompt(`e.g.o password for ${username}`)
PromptPassword ==
  /\ pc = "promptPassword"
  /\ Goto(IF variant = "token" THEN "login" ELSE "formLogin",
          <<Ev("prompt", "password", JUndefined)>>)
  /\ UNCHANGED <<variant, command, options, run, file, schema, preconfirmedPrompts,
                 prompts, fieldIdx, verified, token, uploaded, formFields>>

\* const token = await login(auth), outside the try block.
Login ==
  /\ pc = "login"
  /\ \E resp \in LoginResponses :
       LET r == login(resp)
           req == <<Ev("request", "login", JUndefined)>> \o Answered("login", resp)
       IN IF ~r.ok
          THEN /\ Throw(r.error, req)
               /\ UNCHANGED token
          ELSE /\ token' = r.value
               /\ Goto("upload", req)
  /\ UNCHANGED <<variant, command, options, run, file, schema, preconfirmedPrompts,
                 prompts, fieldIdx, verified, uploaded, formFields>>

\* const { version, extension: uuid } = await upload(token, zipPath)
Upload ==
  /\ pc = "upload"
  /\ \E readable \in BOOLEAN, resp \in UploadResponses :
       LET r == Destructure(upload(resp), kExtension)
           evs == <<Ev("form", "upload", UploadFormData),
                    Ev("request", "upload", authorizationHeader(token))>>
                    \o Answered("upload", resp)
                    \o IF resp.transport /\ ~IsOk(resp)
                       THEN <<Ev("stderr", "Upload failed, status", JUndefined)>>
                       ELSE <<>>
       IN IF ~readable
          THEN /\ Throw(Err("NotFound", "No such file or directory", 0, JUndefined, <<>>), <<>>)
               /\ UNCHANGED uploaded
          ELSE IF ~r.ok
          THEN /\ Throw(r.error, evs)
               /\ UNCHANGED uploaded
          ELSE /\ uploaded' = upload(resp).value
               /\ Goto("queryExtension", evs)
  /\ UNCHANGED <<variant, command, options, run, file, schema, preconfirmedPrompts,
                 prompts, fieldIdx, verified, token, formFields>>

\* const { id } = await queryExtension(token, uuid), and the success message.
QueryExtension ==
  /\ pc = "queryExtension"
  /\ \E resp \in QueryResponses :
       LET r == Destructure(queryExtension(resp), kId)
           evs == <<Ev("request", "queryExtension", authorizationHeader(token))>>
                    \o Answered("queryExtension", resp)
                    \o IF resp.transport /\ ~IsOk(resp)
                       THEN <<Ev("stderr", "Upload failed, status", JUndefined)>>
                       ELSE <<>>
       IN IF ~r.ok
          THEN Throw(r.error, evs)
          ELSE Goto("logout",
                    evs \o <<Ev("stdout", "Successfully uploaded extension",
                                   extensionUrl(r.value))>>)
  /\ UNCHANGED <<variant, command, options, run, file, schema, preconfirmedPrompts,
                 prompts, fieldIdx, verified, token, uploaded, formFields>>

\* logout(token): fetch is awaited, response.json() is not, so `data` is a
\* promise, data.detail is undefined, and an unparsable body is an unhandled
\* rejection.
logout(resp) ==
  IF ~resp.transport
  THEN [error |-> TypeError("error sending request"), out |-> <<>>, rejected |-> FALSE]
  ELSE [error |-> NoError,
        out |-> IF IsOk(resp) THEN <<>>
                ELSE <<Ev("stderr", "Logout failed with status", JUndefined)>>,
        rejected |-> ~JSONParse(resp.body).ok]

\* finally { await logout(token) }, and the end of the run.  Whether the
\* unhandled rejection is reported before the process ends is left open.
Logout ==
  /\ pc = "logout"
  /\ \E resp \in LogoutResponses, reported \in BOOLEAN :
       LET r == logout(resp)
           evs == <<Ev("request", "logout", authorizationHeader(token))>> \o Answered("logout", resp) \o r.out
           leaving == IF r.error.name # "none" THEN r.error ELSE pending
       IN IF leaving.name # "none" THEN ExitUncaught(leaving, evs)
          ELSE IF r.rejected /\ reported THEN ExitUncaught(SyntaxError, evs)
          ELSE Exit(0, evs)
  /\ UNCHANGED <<variant, command, options, run, file, schema, preconfirmedPrompts,
                 prompts, fieldIdx, verified, token, uploaded, formFields>>

(***************************************************************************)
(* The upload command of the form-based script.                            *)
(***************************************************************************)
\* The confirmation inputs of the upload form, in document order.
FormFieldOrders ==
  { <<>>,
    <<"shell_license_compliant">>,
    <<"shell_license_compliant", "tos_compliant">>,
    <<"tos_compliant", "shell_license_compliant">> }

\* await login(auth), inside the try block: the login form is fetched, then
\* the credentials are posted.
FormLogin ==
  /\ pc = "formLogin"
  /\ \E how \in {"ok", "transport", "noForm", "rejected"} :
       LET get == <<Ev("request", "GET /", JUndefined)>>
           post == <<Ev("request", "POST /accounts/login/", JUndefined)>>
       IN IF how = "transport" THEN Throw(TypeError("error sending request"), get)
          ELSE IF how = "noForm"
          THEN Throw(PlainError("Required form with action /accounts/login/ not found!", 0), get)
          ELSE IF how = "rejected"
          THEN Throw(PlainError("Login failed with status", 403),
                     get \o post \o <<Ev("stderr", "login response body", JUndefined)>>)
          ELSE Goto("formUploadForm", get \o post)
  /\ UNCHANGED <<variant, command, options, run, file, schema, preconfirmedPrompts,
                 prompts, fieldIdx, verified, token, uploaded, formFields>>

\* upload: getFormFromUrl(uploadUrl) and the input fields of the form.
FormUploadForm ==
  /\ pc = "formUploadForm"
  /\ \E found \in BOOLEAN, inputs \in FormFieldOrders :
       LET get == <<Ev("request", "GET /upload/", JUndefined)>> IN
       IF ~found
       THEN /\ Throw(PlainError("Required form with action undefined not found!", 0), get)
            /\ UNCHANGED formFields
       ELSE /\ formFields' = inputs
            /\ Goto(IF inputs = <<>> THEN "formUploadPost" ELSE "formConfirm", get)
  /\ fieldIdx' = 1
  /\ UNCHANGED <<variant, command, options, run, file, schema, preconfirmedPrompts,
                 prompts, verified, token, uploaded>>

\* confirmedUploadForm: Confirm.prompt for one confirmation input; a declined
\* prompt only leaves the input out of the form data.
FormConfirm ==
  /\ pc = "formConfirm"
  /\ \E answer \in BOOLEAN :
       Goto(IF fieldIdx < Len(formFields) THEN "formConfirm" ELSE "formUploadPost",
            <<Ev("confirm", formFields[fieldIdx], IF answer THEN JTrue ELSE JFalse)>>)
  /\ fieldIdx' = IF fieldIdx < Len(formFields) THEN fieldIdx + 1 ELSE fieldIdx
  /\ UNCHANGED <<variant, command, options, run, file, schema, preconfirmedPrompts,
                 prompts, verified, token, uploaded, formFields>>

\* upload: the file is read and posted; a response that is the upload form
\* again carries the validation messages.
FormUploadPost ==
  /\ pc = "formUploadPost"
  /\ \E readable \in BOOLEAN, how \in {"redirected", "transport", "noForm", "invalid"},
        helpTexts \in HelpTexts :
       LET post == <<Ev("request", "POST /upload/", JUndefined)>>
           failure ==
             IF ~readable
             THEN Err("NotFound", "No such file or directory", 0, JUndefined, <<>>)
             ELSE IF how = "transport" THEN TypeError("error sending request")
             ELSE IF how = "noForm"
             THEN PlainError("Required form with action undefined not found!", 0)
             ELSE IF how = "invalid" THEN InvalidUploadError(helpTexts)
             ELSE NoError
       IN IF failure.name # "none"
          THEN /\ Throw(failure, IF readable THEN post ELSE <<>>)
               /\ UNCHANGED uploaded
          ELSE /\ uploaded' = JString(<<"r", "e", "v", "i", "e", "w">>)
               /\ Goto("formLogout",
                       post \o <<Ev("stdout", "Successfully uploaded, please find the review at",
                                    JUndefined)>>)
  /\ UNCHANGED <<variant, command, options, run, file, schema, preconfirmedPrompts,
                 prompts, fieldIdx, verified, token, formFields>>

\* finally { await logout() }, and the end of the run.
FormLogout ==
  /\ pc = "formLogout"
  /\ \E how \in {"ok", "transport", "failed"} :
       LET get == <<Ev("request", "GET /accounts/logout/", JUndefined)>>
           evs == get \o IF how = "failed"
                         THEN <<Ev("stderr", "Logout failed", JUndefined)>>
                         ELSE <<>>
           leaving == IF how = "transport" THEN TypeError("error sending request")
                      ELSE pending
       IN IF leaving.name # "none" THEN ExitUncaught(leaving, evs)
          ELSE Exit(0, evs)
  /\ UNCHANGED <<variant, command, options, run, file, schema, preconfirmedPrompts,
                 prompts, fieldIdx, verified, token, uploaded, formFields>>

(***************************************************************************)
(* Specifications.                                                         *)
(***************************************************************************)
Next ==
  \/ CheckZipFile
  \/ LoadConfirmations
  \/ VerifyConfirmedPrompts
  \/ FetchConfirmationPrompts
  \/ PromptForConfirmation
  \/ WriteTextFile
  \/ PromptUsername
  \/ PromptPassword
  \/ Login
  \/ Upload
  \/ QueryExtension
  \/ Logout
  \/ FormLogin
  \/ FormUploadForm
  \/ FormConfirm
  \/ FormUploadPost
  \/ FormLogout

Spec == Init /\ [][Next]_vars
\* The second specification: confirm-upload first, then upload --confirmations
\* on the file it wrote, against a server whose two titles are any strings
\* over TitleChars of at most MaxTitleLen code units.
TitleChars == {"a", QUOTE, BACKSLASH, LF, U00E9}

Titles == UNION {[1..n -> TitleChars] : n \in 0..MaxTitleLen}

InitRoundTrip ==
  \E a \in Titles, b \in Titles :
    InitWith(Scenario("token", "confirm-upload", NoOptions, NoFile,
                      SchemaDoc(SchemaProperty(JString(a)), SchemaProperty(JString(b)))))

NextRoundTrip ==
  \/ NextRun("token", "upload", [confirmations |-> TRUE, username |-> TRUE, password |-> TRUE])
  \/ FetchConfirmationPrompts
  \/ PromptForConfirmation
  \/ WriteTextFile
  \/ CheckZipFile
  \/ LoadConfirmations
  \/ VerifyConfirmedPrompts

SpecRoundTrip == InitRoundTrip /\ [][NextRoundTrip]_vars

(***************************************************************************)
(* Properties.                                                             *)
(***************************************************************************)
\* The events of the trace of one kind and name.
Events(kind, name) ==
  {i \in 1..Len(trace) : trace[i].kind = kind /\ trace[i].name = name}

Sent(name) == Cardinality(Events("request", name))

IsConfirm(e) == e.kind = "confirm"

\* The confirmation prompts asked so far, in order.
Confirms == SelectSeq(trace, IsConfirm)

TokenUpload == variant = "token" /\ command = "upload"

\* C1: in the token-based upload command, once login has returned a token,
\* logout is requested at most once while the run goes on and exactly once
\* by the time it has ended, whichever way the upload and the lookup went.
C1_LogoutExactlyOnce ==
  (TokenUpload /\ token # NoToken) =>
    /\ Sent("logout") <= 1
    /\ pc = "exited" => Sent("logout") = 1

\* A run that ended after the upload succeeded and the lookup failed.
C1_Witness ==
  /\ TokenUpload /\ token # NoToken /\ pc = "exited"
  /\ Sent("queryExtension") = 1 /\ pending.name = "Error"
  /\ Sent("logout") = 1

\* A run that ended after the upload failed, with its logout sent.
C1_WitnessUploadFailed ==
  /\ TokenUpload /\ token # NoToken /\ pc = "exited"
  /\ Sent("upload") = 1 /\ Sent("queryExtension") = 0
  /\ Sent("logout") = 1

\* C2: when login fails in the token-based upload command the run has ended
\* with status 1 and no upload, lookup or logout request was sent.
C2_LoginFailureAborts ==
  (TokenUpload /\ Sent("login") = 1 /\ token = NoToken) =>
    /\ pc = "exited" /\ exitCode = 1
    /\ Sent("upload") = 0 /\ Sent("queryExtension") = 0 /\ Sent("logout") = 0

\* A run whose login was answered with a non-success status and a detail.
C2_Witness ==
  /\ TokenUpload /\ Sent("login") = 1 /\ token = NoToken
  /\ pending.text = "Login failed with status" /\ pending.status = 400
  /\ pc = "exited"

\* C3: every login response with a non-success status makes login fail with
\* the "Login failed with status" error carrying that status, whatever the
\* body, and leaves the run without a token.
C3_LoginFailedError ==
  (TokenUpload /\ \E i \in Events("response", "login") : trace[i].arg = JFalse) =>
    /\ token = NoToken
    /\ pending.name = "Error"
    /\ pending.text = "Login failed with status"
    /\ pending.status >= 300

\* C4: when verifyConfirmedPrompts returns false in the upload command the
\* run has ended with status 1 without asking for credentials and without a
\* login, upload, lookup or logout request.
C4_DeclinedAborts ==
  (TokenUpload /\ verified = "false") =>
    /\ pc = "exited" /\ exitCode = 1
    /\ Events("prompt", "username") = {} /\ Events("prompt", "password") = {}
    /\ Sent("login") = 0 /\ Sent("upload") = 0
    /\ Sent("queryExtension") = 0 /\ Sent("logout") = 0

\* A saved record that does not match the wording the server serves now.
C4_Witness ==
  /\ TokenUpload /\ verified = "false" /\ options.confirmations
  /\ GetProperty(preconfirmedPrompts, KeyChars("tos_compliant")) = JString(TosTitle)
  /\ prompts.tos_compliant = TosTitle2

\* C5: the logout step leaves the outcome of the run as it was: the error
\* that was going to leave main, if any, is the one that leaves it, and the
\* exit status is 0 exactly when there was none.
C5_LogoutFailureOnlyLogged ==
  [][(TokenUpload /\ pc = "logout" /\ pc' = "exited") =>
       /\ pending' = pending
       /\ exitCode' = IF pending.name = "none" THEN 0 ELSE 1]_vars

\* The saved value of a field equals the title the server serves for it.
SavedMatches(f) ==
  LET saved == GetProperty(preconfirmedPrompts, KeyChars(f)) IN
  /\ saved.type = "string"
  /\ schema.properties[f].title.type = "string"
  /\ saved.str = schema.properties[f].title.str

\* C6: given a saved record, verifyConfirmedPrompts asks no confirmation and
\* returns true exactly when the saved value of both fields is the served
\* title.
C6_SavedRecordVerdict ==
  (TokenUpload /\ preconfirmedPrompts # JNull /\ verified # "none") =>
    /\ Confirms = <<>>
    /\ verified = "true" <=>
         (SavedMatches("shell_license_compliant") /\ SavedMatches("tos_compliant"))

\* A saved record with an extra key that was accepted.
C6_Witness ==
  /\ TokenUpload /\ preconfirmedPrompts # JNull /\ verified = "true"
  /\ Len(preconfirmedPrompts.members) = 3

\* A saved record without tos_compliant that was rejected.
C6_WitnessMissing ==
  /\ TokenUpload /\ preconfirmedPrompts # JNull /\ verified = "false"
  /\ Len(preconfirmedPrompts.members) = 1
  /\ SavedMatches("shell_license_compliant")

\* C7: promptForConfirmation asks shell_license_compliant, then
\* tos_compliant; a declined prompt is the last one asked and makes the
\* result false; the result is true only after both were asked and accepted.
C7_PromptOrderShortCircuit ==
  variant = "token" =>
    /\ Len(Confirms) <= Len(fields)
    /\ \A i \in 1..Len(Confirms) :
         /\ Confirms[i].name = fields[i]
         /\ Confirms[i].arg = JFalse => (i = Len(Confirms) /\ verified = "false")
    /\ (preconfirmedPrompts = JNull /\ verified = "true") =>
         /\ Len(Confirms) = Len(fields)
         /\ \A i \in 1..Len(Confirms) : Confirms[i].arg = JTrue

\* The first prompt was declined.
C7_Witness ==
  /\ variant = "token" /\ Len(Confirms) = 1 /\ Confirms[1].arg = JFalse
  /\ verified = "false" /\ pc = "exited"

\* C8: a record written by confirm-upload, loaded by a later upload run from
\* the same file against the unchanged schema, is verified as true, with no
\* prompt and no warning.
C8_RoundTrip ==
  (run >= 2 /\ file.exists /\ pc \notin {"checkZipFile", "loadConfirmations"}
     /\ \/ pc # "exited"
        \/ verified # "none") =>
    /\ preconfirmedPrompts # JNull
    /\ verified # "none" => verified = "true"
    /\ Confirms = <<>>
    /\ Events("warn", "Ignoring unexpected confirmations:") = {}

\* A verified record whose titles hold a backslash, a quote, a line feed and
\* a non-ASCII letter.
C8_Witness ==
  /\ run = 2 /\ file.exists /\ verified = "true"
  /\ schema.properties.shell_license_compliant.title.str = <<BACKSLASH, QUOTE>>
  /\ schema.properties.tos_compliant.title.str = <<LF, U00E9>>

\* C9: a run of the upload command that ends with status 0 is one whose
\* upload succeeded.
C9_ExitZeroOnlyAfterUpload ==
  (command = "upload" /\ pc = "exited" /\ exitCode = 0) => uploaded # JUndefined

\* The contents of the confirmations file, parsed.
FileContents == JSONParse(TextDecode(file.bytes)).value

\* C10: loadConfirmations returns a JSON object as it is, and for any other
\* parsed contents warns and returns the empty record.
C10_NonObjectIgnored ==
  (TokenUpload /\ options.confirmations /\ pc = "verifyConfirmedPrompts") =>
    IF FileContents.type = "object"
    THEN /\ preconfirmedPrompts = FileContents
         /\ Events("warn", "Ignoring unexpected confirmations:") = {}
    ELSE /\ preconfirmedPrompts = JObject(<<>>)
         /\ Events("warn", "Ignoring unexpected confirmations:") # {}
\* C11: in a run of the upload command given no username, no password and
\* no confirmations file, every license or ToS confirmation is asked after
\* the username prompt and the password prompt were shown.
C11_CredentialsBeforeConfirmations ==
  (command = "upload" /\ options = NoOptions) =>
    \A i \in 1..Len(trace) :
      trace[i].kind = "confirm" =>
        /\ \E j \in Events("prompt", "username") : j < i
        /\ \E j \in Events("prompt", "password") : j < i
\* The record of the two titles the schema serves.
ServedRecord ==
  JObject(<<Member(KeyChars(fields[1]), schema.properties[fields[1]].title),
            Member(KeyChars(fields[2]), schema.properties[fields[2]].title)>>)

\* C12: confirm-upload changes the target file only after both prompts were
\* accepted, and the file then holds exactly the two fetched prompt texts;
\* when a prompt is declined the file stays as it was, nothing is written
\* and the run ends with status 1.
C12_WrittenOnlyWhenBothAccepted ==
  [][command = "confirm-upload" =>
       /\ (file' # file \/ Events("write", "target-file")' # {}) =>
            /\ Len(Confirms) = Len(fields)
            /\ \A i \in 1..Len(Confirms) : Confirms[i].arg = JTrue
            /\ file'.exists
            /\ FileContents' = ServedRecord
       /\ (verified # "false" /\ verified' = "false") =>
            /\ file' = file
            /\ Events("write", "target-file")' = {}
            /\ pc' = "exited" /\ exitCode' = 1]_vars

\* A record was written whose license title holds a quote and whose ToS
\* title is another string.
C12_Witness ==
  /\ command = "confirm-upload" /\ pc = "exited" /\ exitCode = 0
  /\ Events("write", "target-file") # {}
  /\ file.exists /\ FileContents = ServedRecord
  /\ schema.properties.shell_license_compliant.title.str = <<QUOTE, "a">>
  /\ schema.properties.tos_compliant.title.str = <<LF>>
\* The request of that name was answered with a success status and a body
\* that is JSON.
Succeeded(name) ==
  /\ \E i \in Events("response", name) : trace[i].arg = JTrue
  /\ \E i \in Events("body", name) : trace[i].arg # JUndefined

\* The id in the body of the answer to the lookup.
ReturnedId ==
  GetProperty(trace[CHOOSE i \in Events("body", "queryExtension") : TRUE].arg, kId)

SuccessMessages == Events("stdout", "Successfully uploaded extension")

\* C13: when the lookup after a successful upload fails, no success message
\* is printed, an error is on its way out of main, and the run ends with
\* that error reported and status 1; a success message is printed only after
\* both the upload and the lookup succeeded, and its URL holds the id of the
\* lookup's answer.
C13_LookupFailureFatal ==
  TokenUpload =>
    /\ (Sent("queryExtension") = 1 /\ ~Succeeded("queryExtension")) =>
         /\ uploaded # JUndefined
         /\ SuccessMessages = {}
         /\ pc \in {"logout", "exited"}
         /\ pending.name # "none"
         /\ pc = "exited" =>
              /\ exitCode = 1
              /\ trace[Len(trace)] = Uncaught(pending)
    /\ \A i \in SuccessMessages :
         /\ Succeeded("upload") /\ Succeeded("queryExtension")
         /\ trace[i].arg = extensionUrl(ReturnedId)

\* The upload succeeded, the lookup was answered 404, and the run has ended.
C13_Witness ==
  /\ TokenUpload /\ pc = "exited" /\ exitCode = 1
  /\ Succeeded("upload")
  /\ \E i \in Events("response", "queryExtension") : trace[i].arg = JFalse
  /\ SuccessMessages = {}
  /\ pending.text = "Upload failed with status" /\ pending.status = 404
\* The schema holds a string title for the field.
HasStringTitle(f) ==
  /\ schema.component
  /\ schema.properties[f].present
  /\ schema.properties[f].title.type = "string"

\* fetchConfirmationPrompts has returned a result in this run.
FetchReturned ==
  Sent("schema") = 1 /\ (pc # "exited" \/ verified # "none")

\* C14: once the schema document has arrived, fetchConfirmationPrompts
\* returns exactly when both fields have a string title, and its result
\* holds both titles; otherwise it returns nothing and fails with the
\* "Failed to find confirmation prompt" error naming a field without one.
C14_SchemaErrorOrBothPrompts ==
  (variant = "token" /\ Succeeded("schema")) =>
    IF \A f \in FieldSet : HasStringTitle(f)
    THEN /\ FetchReturned
         /\ \A f \in FieldSet : prompts[f] = schema.properties[f].title.str
    ELSE /\ ~FetchReturned
         /\ prompts = NoPrompts
         /\ pending.name = "Error"
         /\ pending.text = "Failed to find confirmation prompt for field"
         /\ \E f \in FieldSet : ~HasStringTitle(f) /\ pending.detail = JString(KeyChars(f))
\* The token in the body of the answer to the login request.
ReturnedToken ==
  GetProperty(GetProperty(trace[CHOOSE i \in Events("body", "login") : TRUE].arg, kToken),
              kToken)

\* The requests that carry an Authorization header.
Authorized ==
  {i \in 1..Len(trace) :
     trace[i].kind = "request" /\ trace[i].name \in {"upload", "queryExtension", "logout"}}

\* C15: in the token-based upload command an upload request is sent once,
\* with shell_license_compliant and tos_compliant both "true", after the
\* prompts were fetched in this run and verifyConfirmedPrompts returned true
\* against them and after login was answered with a token; the upload, the
\* lookup and the logout all carry that token in their Authorization header.
C15_UploadAfterConsentAndLogin ==
  TokenUpload =>
    /\ \A u \in Events("request", "upload") :
         /\ Sent("upload") = 1
         /\ trace[u - 1] = Ev("form", "upload", UploadFormData)
         /\ GetProperty(trace[u - 1].arg, KeyChars("shell_license_compliant")).str
              = <<"t", "r", "u", "e">>
         /\ GetProperty(trace[u - 1].arg, KeyChars("tos_compliant")).str
              = <<"t", "r", "u", "e">>
         /\ verified = "true"
         /\ Succeeded("schema") /\ \E i \in Events("body", "schema") : i < u
         /\ \A f \in FieldSet : HasStringTitle(f) /\ prompts[f] = schema.properties[f].title.str
         /\ preconfirmedPrompts = JNull =>
              (Len(Confirms) = Len(fields) /\ \A i \in 1..Len(Confirms) : Confirms[i].arg = JTrue)
         /\ preconfirmedPrompts # JNull => \A f \in FieldSet : SavedMatches(f)
         /\ \E i \in Events("body", "login") : i < u
    /\ \A i \in Authorized :
         /\ Succeeded("login")
         /\ \E j \in Events("body", "login") : j < i
         /\ token = ReturnedToken
         /\ ReturnedToken.type = "string"
         /\ trace[i].arg = JString(<<"T", "o", "k", "e", "n", " ">> \o ReturnedToken.str)

\* A run that has ended after the upload, the lookup and the logout were all
\* sent with the token "t", on interactively confirmed prompts.
C15_Witness ==
  /\ TokenUpload /\ pc = "exited" /\ exitCode = 0
  /\ preconfirmedPrompts = JNull /\ verified = "true"
  /\ Sent("upload") = 1 /\ Sent("queryExtension") = 1 /\ Sent("logout") = 1
  /\ token = JString(<<"t">>)
  /\ \A i \in Authorized : trace[i].arg = JString(<<"T", "o", "k", "e", "n", " ", "t">>)
====
